---- MODULE Spec2Model ----
(***************************************************************************)
(* Verification model of the FHEVM age verifier:                           *)
(*   - the ledger: AgeVerifierWithNFT (decryption-request lifecycle) and   *)
(*     the AgeCredentialNFT it mints to;                                   *)
(*   - the client: checkAndRetryDecryption, RelayerClient.pollDecryption,  *)
(*     safeContractCall and the useDecryption orchestrator.                *)
(***************************************************************************)
EXTENDS Integers, Sequences, FiniteSets, TLC

\* ------------------------------------------------------------------ bounds
MaxRequests == 4          \* request ids handed out by FHE.requestDecryption
MaxMintRequests == 2      \* request ids handed out where re-entrant minting is explored
MaxTokens == 3            \* credential tokens minted
MaxDepth == 2             \* nested mintCredential frames (re-entrancy depth)
MaxPollAttempts == 4      \* largest maxAttempts option given to pollDecryption
MaxBackoffRetries == 5    \* largest maxRetries option given to retryWithBackoff
MaxFinalityAttempts == 5  \* largest maxAttempts given to waitForTransactionWithPublicRpc
MaxWaitAttempts == 5      \* iterations of waitForCondition explored

\* --------------------------------------------------------- program constants
REQUEST_TIMEOUT == 1800   \* 30 minutes
MAX_RETRIES == 3
RETRY_COOLDOWN == 300     \* 5 minutes
MINIMUM_AGE == 18
CLIENT_MAX_RETRIES == 3   \* the literal 3 in checkAndRetryDecryption
FIRST_TOKEN_ID == 1

\* ------------------------------------------------------------------ domains
ZERO == "0x0"                         \* address(0)
Users == {"alice", "mallory"}         \* accounts that send transactions
Contracts == {"mallory"}              \* accounts with code (onERC721Received runs)
Verifier == "verifier"                \* the AgeVerifierWithNFT contract
Account == "alice"                    \* the account connected to the frontend
Ages == {17, 18}                      \* plaintext ages submitted
LifecycleAges == {18}                 \* ages submitted where block time is explored
NoAge == 0                            \* an euint32 handle never written
RequestIds == 1..MaxRequests
TokenIds == FIRST_TOKEN_ID..MaxTokens
\* block timestamps explored (seconds). Between them a request meets the retry
\* window (300 -> 900), the cool-down boundary (900 -> 1200), the timeout boundary
\* (1200 -> 3000) and expiry (300 or 900 -> 3000)
GenesisTime == RETRY_COOLDOWN
BlockTimes == {GenesisTime + 2 * RETRY_COOLDOWN, GenesisTime + 3 * RETRY_COOLDOWN,
               GenesisTime + 3 * RETRY_COOLDOWN + REQUEST_TIMEOUT}

NftAddress == "nft"                   \* the deployed AgeCredentialNFT
Deployer == "deployer"                \* deploys both contracts: Ownable(msg.sender)
Senders == Users \cup {Deployer}      \* accounts that send transactions directly
Minters == {Verifier, "mallory"}      \* addresses proposed as minters
NoReceipt == [op |-> "none", sender |-> ZERO, status |-> "none"]
NoRequest == [requester |-> ZERO, timestamp |-> 0, retryCount |-> 0, processed |-> FALSE]

VARIABLES
    now,                \* block.timestamp
    counterRequest,     \* next id FHE.requestDecryption returns
    decryptionRequests, \* mapping(uint256 => DecryptionRequest)
    requestIdToUser,    \* mapping(uint256 => address)
    userToRequestId,    \* mapping(address => uint256)
    isVerified,         \* mapping(address => bool)
    userEncryptedAges,  \* mapping(address => euint32), by its plaintext
    cleartexts,         \* per request: the plaintext of the ebool it asked to decrypt
    tokenIdCounter,     \* AgeCredentialNFT._tokenIdCounter
    owners,             \* ERC721 _owners
    addressToTokenId,   \* AgeCredentialNFT.addressToTokenId
    authorizedMinters,  \* AgeCredentialNFT.authorizedMinters (as a set)
    stack,              \* mintCredential frames suspended in onERC721Received
    retryLog,           \* history: the DecryptionRetrying events, with the count before
    completed,          \* history: DecryptionCompleted events emitted per request id
    client,             \* checkAndRetryDecryption of Account: position and locals
    poll,               \* RelayerClient.pollDecryption: position, locals, counters
    call,               \* safeContractCall: position, loop index, endpoints contacted
    dec,                \* useDecryption: React state and position of requestDecryption
    tokenApprovals,     \* ERC721 _tokenApprovals
    operatorApprovals,  \* ERC721 _operatorApprovals, as a set of <<owner, operator>>
    nftContract,        \* AgeVerifierWithNFT.nftContract
    receipt,            \* the last transaction sent to a contract directly: who, what, outcome
    submitted,          \* history: the ages each account has submitted to the verifier
    appStatus,          \* App: the status line set by handleVerifyFHE's timeout branch
    sent,               \* App: the transactions handleVerify has submitted, by what they carry
    finality,           \* waitForTransactionWithPublicRpc: position, provider, counters
    backoff,            \* retryWithBackoff: position, loop index, calls and waits made
    app,                \* App: the loading flag and handleVerifyFHE's local encryptedData
    health,             \* the gateway health checks: the response and what each check returned
    wait,               \* handleVerifyFHE's wait: the waitForCondition task, the timer, the handler
    mockTx              \* handleVerifyMock: the receipt it got and the isVerified state it set

ledgerVars == <<now, counterRequest, decryptionRequests, requestIdToUser, userToRequestId,
                isVerified, userEncryptedAges, cleartexts>>
nftVars == <<tokenIdCounter, owners, addressToTokenId, authorizedMinters, stack>>
histVars == <<retryLog, completed>>
frontVars == <<poll, call, dec>>
accessVars == <<tokenApprovals, operatorApprovals, nftContract, receipt>>
sideVars == <<health, wait, mockTx>>
flowVars == <<finality, backoff, app, sideVars>>
extVars == <<accessVars, submitted, appStatus, sent, flowVars>>
vars == <<ledgerVars, nftVars, histVars, client, frontVars, extVars>>

\* ------------------------------------------------------------ ledger: views
\* AgeVerifierWithNFT.isRequestExpired
isRequestExpired(requestId) ==
    LET request == decryptionRequests[requestId] IN
    IF request.timestamp = 0 THEN TRUE
    ELSE now > request.timestamp + REQUEST_TIMEOUT

\* AgeVerifierWithNFT.getRequestStatus
getRequestStatus(requestId) ==
    LET request == decryptionRequests[requestId]
        exists == request.timestamp > 0
    IN  IF ~exists
        THEN [exists |-> FALSE, processed |-> FALSE, retryCount |-> 0,
              expired |-> TRUE, timestamp |-> 0]
        ELSE [exists |-> TRUE, processed |-> request.processed,
              retryCount |-> request.retryCount,
              expired |-> now > request.timestamp + REQUEST_TIMEOUT,
              timestamp |-> request.timestamp]

\* AgeCredentialNFT.hasCredential
hasCredential(account) == addressToTokenId[account] # 0

\* FHE.ge(age, MINIMUM_AGE), by its plaintext
isOldEnough(age) == age >= MINIMUM_AGE

\* ------------------------------------------------------- ledger: credential
\* mutant: mintCredential without the authorizedMinters require
MayMintAnyone(sender, to) == addressToTokenId[to] = 0

\* the two requires of AgeCredentialNFT.mintCredential
MayMint(sender, to) ==
    /\ sender \in authorizedMinters
    /\ addressToTokenId[to] = 0

\* AgeCredentialNFT.mintCredential called by `sender`: the two requires, the counter,
\* _safeMint (ERC721 _mint, then onERC721Received when `to` has code), and, once the
\* hook has returned, the index update. With a receiver that has code the frame is
\* suspended on `stack` until HookReturn resumes it.
mintCredential(sender, to) ==
    /\ MayMint(sender, to)
    /\ tokenIdCounter <= MaxTokens
    /\ Len(stack) < MaxDepth
    /\ LET tokenId == tokenIdCounter IN
       /\ tokenIdCounter' = tokenIdCounter + 1
       /\ owners' = [owners EXCEPT ![tokenId] = to]
       /\ IF to \in Contracts
          THEN /\ stack' = <<[to |-> to, tokenId |-> tokenId]>> \o stack
               /\ UNCHANGED addressToTokenId
          ELSE /\ addressToTokenId' = [addressToTokenId EXCEPT ![to] = tokenId]
               /\ UNCHANGED stack
    /\ UNCHANGED authorizedMinters

\* AgeVerifierWithNFT._mintNFTCredential
mintNFTCredential(user) ==
    IF hasCredential(user)
    THEN UNCHANGED nftVars
    ELSE mintCredential(Verifier, user)

\* ---------------------------------------------------- ledger: request guards
\* mutant: callbackDecryption without the "Request expired" require
CanCallbackNoExpiry(requestId) ==
    LET request == decryptionRequests[requestId] IN
    /\ request.timestamp > 0
    /\ ~request.processed
    /\ requestIdToUser[requestId] # ZERO

\* mutant: callbackDecryption without require(!request.processed)
CanCallbackNoProcessedCheck(requestId) ==
    LET request == decryptionRequests[requestId] IN
    /\ request.timestamp > 0
    /\ now <= request.timestamp + REQUEST_TIMEOUT
    /\ requestIdToUser[requestId] # ZERO

\* the require chain of callbackDecryption
CanCallback(requestId) ==
    LET request == decryptionRequests[requestId] IN
    /\ request.timestamp > 0
    /\ ~request.processed
    /\ now <= request.timestamp + REQUEST_TIMEOUT
    /\ requestIdToUser[requestId] # ZERO

\* mutant: retryDecryption without require(request.retryCount < MAX_RETRIES)
CanRetryNoBound(sender, requestId) ==
    LET request == decryptionRequests[requestId]
        user == requestIdToUser[requestId]
    IN  /\ user # ZERO
        /\ sender = user
        /\ ~request.processed
        /\ now > request.timestamp + RETRY_COOLDOWN
        /\ now <= request.timestamp + REQUEST_TIMEOUT
        /\ userToRequestId[user] # 0

\* the require chain of retryDecryption
CanRetry(sender, requestId) ==
    LET request == decryptionRequests[requestId]
        user == requestIdToUser[requestId]
    IN  /\ user # ZERO
        /\ sender = user
        /\ ~request.processed
        /\ request.retryCount < MAX_RETRIES
        /\ now > request.timestamp + RETRY_COOLDOWN
        /\ now <= request.timestamp + REQUEST_TIMEOUT
        /\ userToRequestId[user] # 0

\* mutant: the successor record is written without its requester
RetryRecordsNoRequester(requestId, newRequestId) ==
    LET request == decryptionRequests[requestId]
        count == request.retryCount + 1
    IN  [decryptionRequests EXCEPT
            ![requestId] = [request EXCEPT !.retryCount = count],
            ![newRequestId] = [requester |-> ZERO,
                               timestamp |-> now,
                               retryCount |-> count,
                               processed |-> FALSE]]

\* mutant: the successor record is built before request.retryCount++ takes effect
RetryRecordsStaleCount(requestId, newRequestId) ==
    LET request == decryptionRequests[requestId]
    IN  [decryptionRequests EXCEPT
            ![requestId] = [request EXCEPT !.retryCount = request.retryCount + 1],
            ![newRequestId] = [requester |-> requestIdToUser[requestId],
                               timestamp |-> now,
                               retryCount |-> request.retryCount,
                               processed |-> FALSE]]

\* the records retryDecryption writes: the predecessor's count is incremented in
\* place and the successor copies the incremented count
RetryRecords(requestId, newRequestId) ==
    LET request == decryptionRequests[requestId]
        count == request.retryCount + 1
    IN  [decryptionRequests EXCEPT
            ![requestId] = [request EXCEPT !.retryCount = count],
            ![newRequestId] = [requester |-> requestIdToUser[requestId],
                               timestamp |-> now,
                               retryCount |-> count,
                               processed |-> FALSE]]

\* ---------------------------------------------------------- ledger: actions
\* a later block is mined
Tick(t) ==
    /\ stack = <<>>
    /\ t > now
    /\ now' = t
    /\ UNCHANGED <<counterRequest, decryptionRequests, requestIdToUser, userToRequestId,
                   isVerified, userEncryptedAges, cleartexts, nftVars, histVars, client, frontVars, extVars>>

\* AgeVerifierWithNFT.verifyAge called by `sender` with an encryption of `age`
VerifyAgeEffect(sender, age) ==
    /\ stack = <<>>
    /\ counterRequest <= MaxRequests
    /\ LET requestId == counterRequest IN
       /\ counterRequest' = counterRequest + 1
       /\ userEncryptedAges' = [userEncryptedAges EXCEPT ![sender] = age]
       /\ cleartexts' = [cleartexts EXCEPT ![requestId] = isOldEnough(age)]
       /\ decryptionRequests' = [decryptionRequests EXCEPT ![requestId] =
              [requester |-> sender, timestamp |-> now, retryCount |-> 0,
               processed |-> FALSE]]
       /\ requestIdToUser' = [requestIdToUser EXCEPT ![requestId] = sender]
       /\ userToRequestId' = [userToRequestId EXCEPT ![sender] = requestId]
    /\ submitted' = [submitted EXCEPT ![sender] = @ \cup {age}]
    /\ UNCHANGED <<now, isVerified, nftVars, histVars, client, frontVars, accessVars>>

\* AgeVerifierWithNFT.verifyAge as a transaction sent by `sender` directly
verifyAge(sender, age) ==
    /\ VerifyAgeEffect(sender, age)
    /\ UNCHANGED <<appStatus, sent, flowVars>>

\* AgeVerifierWithNFT.callbackDecryption: FHE.checkSignatures admits only the true
\* plaintext of the requested ciphertext
callbackDecryption(requestId) ==
    /\ stack = <<>>
    /\ CanCallback(requestId)
    /\ LET user == requestIdToUser[requestId]
           decryptedResult == cleartexts[requestId]
       IN  /\ isVerified' = [isVerified EXCEPT ![user] = decryptedResult]
           /\ decryptionRequests' = [decryptionRequests EXCEPT ![requestId].processed = TRUE]
           /\ completed' = [completed EXCEPT ![requestId] = @ + 1]
           /\ IF decryptedResult /\ nftContract # ZERO
              THEN mintNFTCredential(user) ELSE UNCHANGED nftVars
    /\ UNCHANGED <<now, counterRequest, requestIdToUser, userToRequestId,
                   userEncryptedAges, cleartexts, retryLog, client, frontVars, extVars>>

\* the ledger part of retryDecryption, shared by a direct call and the client's call
RetryEffect(sender, requestId) ==
    /\ CanRetry(sender, requestId)
    /\ counterRequest <= MaxRequests
    /\ LET user == requestIdToUser[requestId]
           newRequestId == counterRequest
       IN  /\ counterRequest' = counterRequest + 1
           /\ cleartexts' = [cleartexts EXCEPT
                  ![newRequestId] = isOldEnough(userEncryptedAges[user])]
           /\ decryptionRequests' = RetryRecords(requestId, newRequestId)
           /\ requestIdToUser' = [requestIdToUser EXCEPT ![newRequestId] = user]
           /\ userToRequestId' = [userToRequestId EXCEPT ![user] = newRequestId]
           /\ retryLog' = retryLog \cup
                  {[old |-> requestId, new |-> newRequestId,
                    before |-> decryptionRequests[requestId].retryCount,
                    count |-> decryptionRequests'[newRequestId].retryCount]}
    /\ UNCHANGED <<now, isVerified, userEncryptedAges, nftVars, completed, frontVars, extVars>>

\* AgeVerifierWithNFT.retryDecryption, sent directly by `sender`
retryDecryption(sender, requestId) ==
    /\ stack = <<>>
    /\ RetryEffect(sender, requestId)
    /\ UNCHANGED client

\* AgeVerifierWithNFT.verifyAgeMock without the call-depth guard
MockEffect(sender, age) ==
    /\ LET result == age >= MINIMUM_AGE IN
       /\ isVerified' = [isVerified EXCEPT ![sender] = result]
       /\ userEncryptedAges' = [userEncryptedAges EXCEPT ![sender] = age]
       /\ submitted' = [submitted EXCEPT ![sender] = @ \cup {age}]
       /\ IF result /\ nftContract # ZERO
          THEN mintNFTCredential(sender) ELSE UNCHANGED nftVars
    /\ UNCHANGED <<now, counterRequest, decryptionRequests, requestIdToUser,
                   userToRequestId, cleartexts, histVars, client, frontVars, accessVars>>

\* AgeVerifierWithNFT.mintNFTManual without the call-depth guard
ManualEffect(sender) ==
    /\ nftContract # ZERO
    /\ isVerified[sender]
    /\ ~hasCredential(sender)
    /\ mintNFTCredential(sender)
    /\ UNCHANGED <<ledgerVars, histVars, client, frontVars, extVars>>

\* isVerified[msg.sender] = true
VerdictSimplified(age) == TRUE

\* AgeVerifierWithNFT.verifyAge of the simplified verifier (contracts/
\* AgeVerifierWithNFT.sol), sent by `sender` with an encryption of `age`: the
\* account is marked verified without any comparison, then the credential is minted
verifyAgeSimplified(sender, age) ==
    /\ stack = <<>>
    /\ userEncryptedAges' = [userEncryptedAges EXCEPT ![sender] = age]
    /\ submitted' = [submitted EXCEPT ![sender] = @ \cup {age}]
    /\ isVerified' = [isVerified EXCEPT ![sender] = VerdictSimplified(age)]
    /\ IF isVerified'[sender] /\ nftContract # ZERO
       THEN mintNFTCredential(sender) ELSE UNCHANGED nftVars
    /\ UNCHANGED <<now, counterRequest, decryptionRequests, requestIdToUser,
                   userToRequestId, cleartexts, histVars, client, frontVars, accessVars,
                   appStatus, sent, flowVars>>

\* AgeVerifierWithNFT.verifyAgeMock as a transaction of `sender`
verifyAgeMock(sender, age) ==
    /\ stack = <<>>
    /\ MockEffect(sender, age)
    /\ UNCHANGED <<appStatus, sent, flowVars>>

\* AgeVerifierWithNFT.mintNFTManual as a transaction of `sender`
mintNFTManual(sender) ==
    /\ stack = <<>>
    /\ ManualEffect(sender)

\* onERC721Received of the receiver of the innermost suspended mint calls back
\* into the verifier (msg.sender is the receiver contract)
HookReenterMock(age) ==
    /\ stack # <<>>
    /\ MockEffect(Head(stack).to, age)
    /\ UNCHANGED <<appStatus, sent, flowVars>>

HookReenterManual ==
    /\ stack # <<>>
    /\ ManualEffect(Head(stack).to)

\* onERC721Received returns its selector: _safeMint returns and mintCredential
\* writes addressToTokenId[to] = tokenId
HookReturn ==
    /\ stack # <<>>
    /\ LET frame == Head(stack) IN
       addressToTokenId' = [addressToTokenId EXCEPT ![frame.to] = frame.tokenId]
    /\ stack' = Tail(stack)
    /\ UNCHANGED <<ledgerVars, tokenIdCounter, owners, authorizedMinters, histVars, client, frontVars, extVars>>

\* AgeCredentialNFT.revokeCredential, sent by the NFT owner
revokeCredential(tokenId) ==
    /\ stack = <<>>
    /\ owners[tokenId] # ZERO
    /\ LET owner == owners[tokenId] IN
       /\ owners' = [owners EXCEPT ![tokenId] = ZERO]
       /\ addressToTokenId' = [addressToTokenId EXCEPT ![owner] = 0]
    /\ tokenApprovals' = [tokenApprovals EXCEPT ![tokenId] = ZERO]
    /\ UNCHANGED <<ledgerVars, tokenIdCounter, authorizedMinters, stack, histVars, client,
                   frontVars, operatorApprovals, nftContract, receipt, submitted,
                   appStatus, sent, flowVars>>

\* AgeCredentialNFT.authorizeMinter, sent by the NFT owner
authorizeMinter(minter) ==
    /\ stack = <<>>
    /\ authorizedMinters' = authorizedMinters \cup {minter}
    /\ UNCHANGED <<ledgerVars, tokenIdCounter, owners, addressToTokenId, stack,
                   histVars, client, frontVars, extVars>>

\* AgeCredentialNFT.revokeMinter, sent by the NFT owner
revokeMinter(minter) ==
    /\ stack = <<>>
    /\ authorizedMinters' = authorizedMinters \ {minter}
    /\ UNCHANGED <<ledgerVars, tokenIdCounter, owners, addressToTokenId, stack,
                   histVars, client, frontVars, extVars>>

\* ------------------------------------------- ledger: transactions sent directly
\* the outcome of a transaction `sender` sent to a contract
Receipt(op, sender, ok) ==
    [op |-> op, sender |-> sender, status |-> IF ok THEN "success" ELSE "reverted"]

\* ERC721.isApprovedForAll
isApprovedForAll(owner, operator) == <<owner, operator>> \in operatorApprovals

\* ERC721._isAuthorized
isAuthorized(owner, spender, tokenId) ==
    /\ spender # ZERO
    /\ \/ owner = spender
       \/ isApprovedForAll(owner, spender)
       \/ tokenApprovals[tokenId] = spender

\* mutant: _update without the soulbound check
SoulboundAllowsAll(to, tokenId) == TRUE

\* AgeCredentialNFT._update: a move between two non-zero addresses reverts
SoulboundAllows(to, tokenId) == ~(owners[tokenId] # ZERO /\ to # ZERO)

\* _update(to, tokenId, auth) does not revert: the override's check, then
\* ERC721._update's _checkAuthorized when auth is not zero
CanUpdate(to, tokenId, auth) ==
    /\ SoulboundAllows(to, tokenId)
    /\ auth # ZERO =>
          /\ owners[tokenId] # ZERO
          /\ isAuthorized(owners[tokenId], auth, tokenId)

\* ERC721.transferFrom does not revert
CanTransfer(sender, from, to, tokenId) ==
    /\ to # ZERO
    /\ CanUpdate(to, tokenId, sender)
    /\ owners[tokenId] = from

\* transferFrom / safeTransferFrom sent by `sender`
TransferEffect(op, sender, from, to, tokenId) ==
    /\ stack = <<>>
    /\ IF CanTransfer(sender, from, to, tokenId)
       THEN /\ owners' = [owners EXCEPT ![tokenId] = to]
            /\ tokenApprovals' = [tokenApprovals EXCEPT ![tokenId] = ZERO]
       ELSE UNCHANGED <<owners, tokenApprovals, submitted, appStatus, sent>>
    /\ receipt' = Receipt(op, sender, CanTransfer(sender, from, to, tokenId))
    /\ UNCHANGED <<ledgerVars, tokenIdCounter, addressToTokenId, authorizedMinters, stack,
                   histVars, client, frontVars, operatorApprovals, nftContract,
                   submitted, appStatus, sent, flowVars>>

transferFrom(sender, from, to, tokenId) ==
    TransferEffect("transferFrom", sender, from, to, tokenId)

safeTransferFrom(sender, from, to, tokenId) ==
    TransferEffect("safeTransferFrom", sender, from, to, tokenId)

\* ERC721.approve sent by `sender`: the token exists and sender is its owner or an
\* operator of its owner
approve(sender, to, tokenId) ==
    /\ stack = <<>>
    /\ LET ok == /\ owners[tokenId] # ZERO
                 /\ \/ owners[tokenId] = sender
                    \/ isApprovedForAll(owners[tokenId], sender)
       IN  /\ tokenApprovals' = IF ok THEN [tokenApprovals EXCEPT ![tokenId] = to]
                                ELSE tokenApprovals
           /\ receipt' = Receipt("approve", sender, ok)
    /\ UNCHANGED <<ledgerVars, nftVars, histVars, client, frontVars, operatorApprovals,
                   nftContract, submitted, appStatus, sent, flowVars>>

\* ERC721.setApprovalForAll(operator, true) sent by `sender`
setApprovalForAll(sender, operator) ==
    /\ stack = <<>>
    /\ operator # ZERO
    /\ operatorApprovals' = operatorApprovals \cup {<<sender, operator>>}
    /\ receipt' = Receipt("setApprovalForAll", sender, TRUE)
    /\ UNCHANGED <<ledgerVars, nftVars, histVars, client, frontVars, tokenApprovals,
                   nftContract, submitted, appStatus, sent, flowVars>>

\* AgeCredentialNFT.mintCredential sent directly by the account `sender`
mintCredentialTx(sender, to) ==
    /\ stack = <<>>
    /\ IF MayMint(sender, to) THEN mintCredential(sender, to) ELSE UNCHANGED nftVars
    /\ receipt' = Receipt("mintCredential", sender, MayMint(sender, to))
    /\ UNCHANGED <<ledgerVars, histVars, client, frontVars, tokenApprovals,
                   operatorApprovals, nftContract, submitted, appStatus, sent, flowVars>>

\* AgeCredentialNFT.authorizeMinter / revokeMinter sent by `sender`: onlyOwner
MinterTx(op, sender, minter) ==
    /\ stack = <<>>
    /\ authorizedMinters' =
          IF sender # Deployer THEN authorizedMinters
          ELSE IF op = "authorizeMinter" THEN authorizedMinters \cup {minter}
          ELSE authorizedMinters \ {minter}
    /\ receipt' = Receipt(op, sender, sender = Deployer)
    /\ UNCHANGED <<ledgerVars, tokenIdCounter, owners, addressToTokenId, stack, histVars,
                   client, frontVars, tokenApprovals, operatorApprovals, nftContract,
                   submitted, appStatus, sent, flowVars>>

authorizeMinterTx(sender, minter) == MinterTx("authorizeMinter", sender, minter)

revokeMinterTx(sender, minter) == MinterTx("revokeMinter", sender, minter)

\* AgeVerifierWithNFT.setNFTContract has no require and no modifier
MaySetNFTContract(sender) == TRUE

\* AgeVerifierWithNFT.setNFTContract sent by `sender`
setNFTContract(sender, nft) ==
    /\ stack = <<>>
    /\ nftContract' = IF MaySetNFTContract(sender) THEN nft ELSE nftContract
    /\ receipt' = Receipt("setNFTContract", sender, MaySetNFTContract(sender))
    /\ UNCHANGED <<ledgerVars, nftVars, histVars, client, frontVars, tokenApprovals,
                   operatorApprovals, submitted, appStatus, sent, flowVars>>

\* ------------------------------------------- client: checkAndRetryDecryption
\* the fields of getRequestStatus the client reads
NoStatus == [processed |-> FALSE, retryCount |-> 0, expired |-> FALSE]
ClientIdle == [pc |-> "idle", requestId |-> 0, status |-> NoStatus,
               called |-> "no", result |-> 0]
StatusRead(requestId) ==
    LET status == getRequestStatus(requestId) IN
    [processed |-> status.processed, retryCount |-> status.retryCount,
     expired |-> status.expired]


\* mutant: the retry decision without the expiry test
ShouldRetryIgnoresExpiry(status) == status.retryCount < CLIENT_MAX_RETRIES

\* the condition under which checkAndRetryDecryption sends retryDecryption
ShouldRetry(status) == status.expired /\ status.retryCount < CLIENT_MAX_RETRIES

\* the two reads: userToRequestId(userAddress), then getRequestStatus(requestId);
\* returns null (0) when there is no request or it is processed
ClientCheck ==
    /\ stack = <<>>
    /\ client.pc = "idle"
    /\ LET requestId == userToRequestId[Account] IN
       IF requestId = 0
       THEN client' = [ClientIdle EXCEPT !.pc = "done"]
       ELSE LET status == StatusRead(requestId) IN
            client' = [ClientIdle EXCEPT
                          !.pc = IF status.processed THEN "done" ELSE "checked",
                          !.requestId = requestId, !.status = status]
    /\ UNCHANGED <<ledgerVars, nftVars, histVars, frontVars, extVars>>

\* the status read does not ask for a retry: the old id is returned untouched
ClientKeep ==
    /\ stack = <<>>
    /\ client.pc = "checked"
    /\ ~ShouldRetry(client.status)
    /\ client' = [client EXCEPT !.pc = "done", !.result = client.requestId]
    /\ UNCHANGED <<ledgerVars, nftVars, histVars, frontVars, extVars>>

\* the status read asks for a retry: retryDecryption is sent. Mined, the new id of
\* the DecryptionRetrying event is returned; reverted, the catch block returns null
ClientRetry ==
    /\ stack = <<>>
    /\ client.pc = "checked"
    /\ ShouldRetry(client.status)
    /\ IF CanRetry(Account, client.requestId)
       THEN /\ RetryEffect(Account, client.requestId)
            /\ client' = [client EXCEPT !.pc = "done", !.called = "accepted",
                                        !.result = counterRequest]
       ELSE /\ client' = [client EXCEPT !.pc = "done", !.called = "reverted",
                                        !.result = 0]
            /\ UNCHANGED <<ledgerVars, nftVars, histVars, frontVars, extVars>>

\* checkAndRetryDecryption returns to its caller (no await lies between the
\* decision and the return, so nothing else runs in between)
ClientReturn ==
    /\ client.pc = "done"
    /\ client' = ClientIdle
    /\ UNCHANGED <<ledgerVars, nftVars, histVars, frontVars, extVars>>

\* ledger transactions are mined while the client is not in its final synchronous step
Mined == client.pc # "done"

\* ------------------------------------------------------ client: handleVerify
GatewayStatuses == {"checking", "up", "down"}      \* fheStatus

\* a transaction the App submitted: the contract function and the plaintext age its
\* calldata carries (NoAge when it carries only the encrypted handle and the proof)
Tx(fn, plainAge) == [fn |-> fn, plainAge |-> plainAge]

\* handleVerify's choice of mode: fheStatus === 'up' && contract
UsesFHE(fheStatus, contractReady) == fheStatus = "up" /\ contractReady

\* setLoading(false) and no encryptedData: the App as mounted
AppIdle == [loading |-> FALSE, encryptedData |-> "none"]

\* the error handleVerifyFHE throws when encryptAge returned null
EncryptFailedMessage == "Failed to encrypt age. Gateway may be offline."

\* the messages for which error.message.includes('encrypt') or includes('Gateway')
MentionsEncryptOrGateway(message) == message \in {EncryptFailedMessage}

\* the status line handleVerifyFHE's catch block leaves: the failure prefix with
\* error.message, replaced by the Mock-mode hint when the message mentions
\* 'encrypt' or 'Gateway'
CatchStatus(message) ==
    IF MentionsEncryptOrGateway(message)
    THEN "FHE encryption failed. Please try Mock mode or check Gateway status."
    ELSE message

\* mutant: the transaction is built without the null check on encryptedData
SubmitsUnchecked(encryptedData) == TRUE

\* if (!encryptedData) throw: only a payload reaches the submission
Submits(encryptedData) == encryptedData # "null"

\* handleVerifyFHE of Account up to the submission: setLoading(true), encryptAge
\* (a payload of handle and proof, or null), then the verifyAge transaction with the
\* handle and the proof; with null the catch block sets the status and finally
\* resets loading
handleVerifyFHE(age, encrypted) ==
    LET encryptedData == IF encrypted THEN "payload" ELSE "null" IN
    IF Submits(encryptedData)
    THEN /\ VerifyAgeEffect(Account, age)
         /\ sent' = sent \cup {Tx("verifyAge", NoAge)}
         /\ appStatus' = "Waiting for transaction confirmation"
         /\ app' = [loading |-> TRUE, encryptedData |-> encryptedData]
         /\ UNCHANGED <<finality, backoff, sideVars>>
    ELSE /\ appStatus' = CatchStatus(EncryptFailedMessage)
         /\ app' = [loading |-> FALSE, encryptedData |-> encryptedData]
         /\ UNCHANGED <<ledgerVars, nftVars, histVars, client, frontVars, accessVars,
                        submitted, sent, finality, backoff, sideVars>>

\* the status line handleVerifyMock ends with, from isVerified read back
MockStatus(age) ==
    IF age >= MINIMUM_AGE THEN "Verification successful" ELSE "Underage - Access denied"

\* no handleVerifyMock has run: no receipt, isVerified state as mounted
NoMockTx == [receipt |-> "none", isVerified |-> "unset", error |-> FALSE]

\* verifyAgeMock of `sender` reverts: its only failing call is mintCredential, made
\* when the result is true, an NFT contract is set and the sender has no credential
MockReverts(sender, age) ==
    /\ age >= MINIMUM_AGE
    /\ nftContract # ZERO
    /\ ~hasCredential(sender)
    /\ ~MayMint(Verifier, sender)

\* handleVerifyMock of Account: the verifyAgeMock transaction with Number(age), its
\* receipt from waitForTransactionWithPublicRpc (mined, with either status), then
\* setIsVerified(ageNum >= 18), the status line, and finally setLoading(false)
handleVerifyMock(age) ==
    /\ IF MockReverts(Account, age)
       THEN UNCHANGED <<ledgerVars, nftVars, histVars, client, frontVars, accessVars,
                        submitted>>
       ELSE MockEffect(Account, age)
    /\ sent' = sent \cup {Tx("verifyAgeMock", age)}
    /\ appStatus' = MockStatus(age)
    /\ app' = [app EXCEPT !.loading = FALSE]
    /\ mockTx' = [receipt |-> IF MockReverts(Account, age) THEN "failed" ELSE "success",
                  isVerified |-> IF age >= MINIMUM_AGE THEN "true" ELSE "false",
                  error |-> FALSE]
    /\ UNCHANGED <<finality, backoff, health, wait>>

\* handleVerifyMock of Account when the wallet rejects the transaction or no receipt
\* arrives within the polls: the catch block reports the error, isVerified is not
\* set, and finally setLoading(false)
handleVerifyMockThrows ==
    /\ stack = <<>>
    /\ appStatus' = "Verification failed"
    /\ app' = [app EXCEPT !.loading = FALSE]
    /\ mockTx' = [mockTx EXCEPT !.receipt = "none", !.error = TRUE]
    /\ UNCHANGED <<ledgerVars, nftVars, histVars, client, frontVars, accessVars,
                   submitted, sent, finality, backoff, health, wait>>

\* handleVerify of Account with `age` typed in
handleVerify(fheStatus, contractReady, age, encrypted) ==
    /\ stack = <<>>
    /\ IF UsesFHE(fheStatus, contractReady)
       THEN handleVerifyFHE(age, encrypted)
       ELSE handleVerifyMock(age)

\* ------------------------------------------- client: handleVerifyFHE on timeout
\* the status line after checkAndRetryDecryption returned newRequestId (null as 0):
\* if (newRequestId) "retry submitted" else "timed out, check manually"
TimeoutStatus(newRequestId) ==
    IF newRequestId # 0 THEN "retrySubmitted" ELSE "manualCheck"

\* the catch branch of the wait in handleVerifyFHE once checkAndRetryDecryption has
\* returned: the status line is set from its result, nothing follows the branch and
\* finally resets loading
AppTimeoutBranch ==
    /\ client.pc = "done"
    /\ appStatus' = TimeoutStatus(client.result)
    /\ client' = ClientIdle
    /\ app' = [app EXCEPT !.loading = FALSE]
    /\ UNCHANGED <<ledgerVars, nftVars, histVars, frontVars, accessVars, submitted, sent,
                   finality, backoff, sideVars>>

\* ------------------------------------------ client: RelayerClient.pollDecryption
\* what one fetch of the oracle endpoint can yield
Responses == {"ok", "okBadBody", "notFound", "otherStatus", "networkError"}

PollIdle == [pc |-> "idle", maxAttempts |-> 0, attempt |-> 0, fetches |-> 0,
             sleeps |-> 0, progressCalls |-> 0, percentage |-> 0, seen |-> {}]

\* Math.round on a non-negative quotient n / d
Round(n, d) == (2 * n + d) \div (2 * d)

\* percentage: Math.round((attempt / maxAttempts) * 100)
Percentage(attempt, maxAttempts) == Round(attempt * 100, maxAttempts)

\* the for-loop header: attempt <= maxAttempts, else the timeout error is thrown
LoopEntry(p) ==
    [p EXCEPT !.pc = IF p.attempt <= p.maxAttempts THEN "attempt" ELSE "thrown"]

\* mutant: the loop also sleeps after its last attempt
SleepsAfterAlways(attempt, maxAttempts) == TRUE

\* if (attempt < maxAttempts) await sleep(interval)
SleepsAfter(attempt, maxAttempts) == attempt < maxAttempts

\* pollDecryption(requestId, contractAddress, {maxAttempts})
PollBegin(maxAttempts) ==
    LoopEntry([PollIdle EXCEPT !.maxAttempts = maxAttempts, !.attempt = 1])

\* one pass of the loop body: onProgress, fetch, and what the response leads to
PollBody(p, response) ==
    LET q == [p EXCEPT !.progressCalls = @ + 1,
                       !.percentage = Percentage(p.attempt, p.maxAttempts),
                       !.fetches = @ + 1,
                       !.seen = @ \cup {response}]
    IN  IF response = "ok"
        THEN [q EXCEPT !.pc = "returned"]
        ELSE IF SleepsAfter(q.attempt, q.maxAttempts)
             THEN [q EXCEPT !.pc = "sleep", !.sleeps = @ + 1]
             ELSE LoopEntry([q EXCEPT !.attempt = @ + 1])

\* the sleep between attempts is over: attempt++ and the loop header
PollAwake(p) == LoopEntry([p EXCEPT !.attempt = @ + 1])

PollStart(maxAttempts) ==
    /\ poll.pc \in {"idle", "returned", "thrown"}
    /\ poll' = PollBegin(maxAttempts)
    /\ UNCHANGED <<ledgerVars, nftVars, histVars, client, call, dec, extVars>>

PollAttempt(response) ==
    /\ poll.pc = "attempt"
    /\ poll' = PollBody(poll, response)
    /\ UNCHANGED <<ledgerVars, nftVars, histVars, client, call, dec, extVars>>

PollWake ==
    /\ poll.pc = "sleep"
    /\ poll' = PollAwake(poll)
    /\ UNCHANGED <<ledgerVars, nftVars, histVars, client, call, dec, extVars>>

\* ---------------------------------------- client: useDecryption.requestDecryption
DEFAULT_MAX_ATTEMPTS == 60            \* pollDecryption's default maxAttempts
MAX_WAIT == 120                       \* waitForCallbackCompletion's iterations

\* the React state of the hook (status, progress, error, result), the position of
\* the running requestDecryption (pc, and i of waitForCallbackCompletion) and, as
\* history, the message of the exception first raised in the run (cause)
DecIdle == [pc |-> "idle", status |-> "idle", progress |-> 0, error |-> "none",
            result |-> "none", i |-> 0, cause |-> "none"]

\* mutant: the catch block rethrows without setStatus('failed')
DecCatchKeepsStatus(d, message) == [d EXCEPT !.pc = "done", !.error = message]

\* catch (err) { setStatus('failed'); setError(err.message); throw err }
DecCatch(d, message) ==
    [d EXCEPT !.pc = "done", !.status = "failed", !.error = message]

\* an exception with `message` is raised in the try block and reaches the catch block
DecThrow(d, message) == DecCatch([d EXCEPT !.cause = message], message)

\* the message of the error step 1 throws from its inner catch, whatever was caught
NotSubmittedMessage == "the user has not submitted a verification request"

\* step 1's inner try: a failed read, or the 'No pending decryption request found'
\* thrown on id 0, is caught and replaced by the fixed message
DecStepOneFails(d, outcome) ==
    DecCatch([d EXCEPT !.cause = IF outcome = "zero"
                                  THEN "No pending decryption request found"
                                  ELSE "read failed"],
             NotSubmittedMessage)

\* mutant: the poll percentage is added without the factor 0.5
PollProgressUnscaled(percentage) == 30 + percentage

\* the onProgress handed to pollDecryption: 30 + percentage * 0.5, rounded
PollProgress(percentage) == 30 + Round(percentage, 2)

\* the onProgress handed to waitForCallbackCompletion: 85 + (i / MAX_WAIT) * 0.15,
\* rounded
WaitProgress(i) == 85 + Round(15 * i, 100 * MAX_WAIT)

\* requestDecryption(userAddress) with a contract: the four resets and progress 10
DecStart ==
    /\ dec.pc \in {"idle", "done"}
    /\ dec' = [DecIdle EXCEPT !.pc = "readRequestId", !.status = "requesting",
                              !.progress = 10]
    /\ UNCHANGED <<ledgerVars, nftVars, histVars, client, poll, call, extVars>>

\* step 1: contract.userToRequestId(userAddress) throws, yields 0 or yields an id;
\* with an id the status becomes polling, progress 30, and pollDecryption starts
DecReadRequestId(outcome) ==
    /\ dec.pc = "readRequestId"
    /\ IF outcome = "id"
       THEN /\ dec' = [dec EXCEPT !.pc = "polling", !.status = "polling", !.progress = 30]
            /\ poll' = PollBegin(DEFAULT_MAX_ATTEMPTS)
       ELSE /\ dec' = DecStepOneFails(dec, outcome)
            /\ UNCHANGED poll
    /\ UNCHANGED <<ledgerVars, nftVars, histVars, client, call, extVars>>

\* step 2: one attempt of pollDecryption, its onProgress setting the progress
DecPollAttempt(response) ==
    /\ dec.pc = "polling"
    /\ poll.pc = "attempt"
    /\ poll' = PollBody(poll, response)
    /\ dec' = [dec EXCEPT !.progress = PollProgress(poll'.percentage)]
    /\ UNCHANGED <<ledgerVars, nftVars, histVars, client, call, extVars>>

DecPollWake ==
    /\ dec.pc = "polling"
    /\ poll.pc = "sleep"
    /\ poll' = PollAwake(poll)
    /\ UNCHANGED <<ledgerVars, nftVars, histVars, client, call, dec, extVars>>

\* pollDecryption returned: status waiting, progress 85, waitForCallbackCompletion
\* starts; pollDecryption threw: the catch block
DecPollSettled ==
    /\ dec.pc = "polling"
    /\ poll.pc \in {"returned", "thrown"}
    /\ dec' = IF poll.pc = "returned"
              THEN [dec EXCEPT !.pc = "waiting", !.status = "waiting", !.progress = 85,
                               !.i = 0]
              ELSE DecThrow(dec, "poll timeout")
    /\ poll' = PollIdle
    /\ UNCHANGED <<ledgerVars, nftVars, histVars, client, call, extVars>>

\* step 3: one iteration of waitForCallbackCompletion: onProgress(i / MAX_WAIT), the
\* reads, and either a return (processed, or isVerified !== undefined) or, the reads
\* having thrown, the sleep and i++; past MAX_WAIT iterations the timeout is thrown
DecWaitIteration(outcome) ==
    /\ dec.pc = "waiting"
    /\ LET d == [dec EXCEPT !.progress = WaitProgress(dec.i)] IN
       dec' = IF outcome \in {"processed", "notProcessed"}
              THEN [d EXCEPT !.pc = "readResult", !.progress = 95]
              ELSE IF d.i + 1 < MAX_WAIT
                   THEN [d EXCEPT !.i = @ + 1]
                   ELSE DecThrow(d, "callback timeout")
    /\ UNCHANGED <<ledgerVars, nftVars, histVars, client, poll, call, extVars>>

\* step 4: contract.isVerified(userAddress), then progress 100 and status success
DecReadResult(outcome) ==
    /\ dec.pc = "readResult"
    /\ dec' = IF outcome = "throws"
              THEN DecThrow(dec, "read failed")
              ELSE [dec EXCEPT !.pc = "done", !.status = "success", !.progress = 100,
                               !.result = outcome]
    /\ UNCHANGED <<ledgerVars, nftVars, histVars, client, poll, call, extVars>>

\* ------------------------------------------------- client: safeContractCall
FALLBACK_RPCS == <<"publicnode", "ankr", "blastapi">>
\* what one endpoint can do: answer with data that decodes, fail in provider.call
\* (network error, rate limit or revert), or answer with data that does not decode
Outcomes == {"ok", "networkError", "rateLimited", "revert", "decodeError"}
Values == {0, 1, 2}                   \* decoded[0]
NoValue == "undefined"                \* no decoded value

NoError == [message |-> "none", causes |-> <<>>]
CallIdle == [pc |-> "idle", index |-> 0, contacted |-> <<>>, result |-> NoValue,
             error |-> NoError]

\* throw new Error(<all RPC calls failed>): a fixed message; the errors caught in the
\* loop were only logged and are not attached
AllFailedError(c) == [message |-> "all RPC calls failed", causes |-> <<>>]

\* the for-of header over FALLBACK_RPCS; past the last endpoint the error is thrown
CallEntry(c) ==
    IF c.index <= Len(FALLBACK_RPCS)
    THEN [c EXCEPT !.pc = "trying"]
    ELSE [c EXCEPT !.pc = "thrown", !.error = AllFailedError(c)]

\* mutant: the first failing endpoint aborts the call
CallFailedAborts(c) == [c EXCEPT !.pc = "thrown", !.error = AllFailedError(c)]

\* catch { console.warn(...); continue }
CallFailed(c) == CallEntry([c EXCEPT !.index = @ + 1])

\* one pass of the loop body against endpoint c.index
CallBody(c, outcome, value) ==
    LET d == [c EXCEPT !.contacted =
                  Append(@, [rpc |-> FALLBACK_RPCS[c.index], outcome |-> outcome,
                             value |-> value])]
    IN  IF outcome = "ok"
        THEN [d EXCEPT !.pc = "returned", !.result = value]
        ELSE CallFailed(d)

CallStart ==
    /\ call.pc \in {"idle", "returned", "thrown"}
    /\ call' = CallEntry([CallIdle EXCEPT !.index = 1])
    /\ UNCHANGED <<ledgerVars, nftVars, histVars, client, poll, dec, extVars>>

CallTry(outcome, value) ==
    /\ call.pc = "trying"
    /\ call' = CallBody(call, outcome, value)
    /\ UNCHANGED <<ledgerVars, nftVars, histVars, client, poll, dec, extVars>>

\* ------------------------------------- client: waitForTransactionWithPublicRpc
\* provider is an index into FALLBACK_RPCS, 0 for null; probes are the outcomes of
\* the getBlockNumber probes made, in order; polls counts getTransactionReceipt calls
FinalityIdle == [pc |-> "idle", maxAttempts |-> 0, provider |-> 0, probes |-> <<>>,
                 i |-> 0, polls |-> 0, sleeps |-> 0, error |-> "none"]

\* after the endpoint loop: if (!provider) throw, else the polling loop's header
FinalityLoopEntry(f) ==
    IF f.i < f.maxAttempts THEN [f EXCEPT !.pc = "poll"]
    ELSE [f EXCEPT !.pc = "thrown", !.error = "confirmation timeout"]

FinalityProbed(f) ==
    IF f.provider = 0
    THEN [f EXCEPT !.pc = "thrown", !.error = "all public RPCs unavailable"]
    ELSE FinalityLoopEntry(f)

\* one pass of the endpoint loop on the next url: provider is assigned the new
\* JsonRpcProvider, then getBlockNumber is awaited; success breaks, failure continues
FinalityProbeBody(f, live) ==
    LET url == Len(f.probes) + 1
        g == [f EXCEPT !.provider = url, !.probes = Append(@, live)]
    IN  IF live \/ url = Len(FALLBACK_RPCS) THEN FinalityProbed(g) ELSE g

\* one pass of the polling loop: getTransactionReceipt returns a receipt with a block
\* number ("mined"), returns none ("pending") or throws ("error"); without a mined
\* receipt the loop sleeps 2 s and i++
FinalityPollBody(f, outcome) ==
    LET g == [f EXCEPT !.polls = @ + 1] IN
    IF outcome = "mined" THEN [g EXCEPT !.pc = "returned"]
    ELSE FinalityLoopEntry([g EXCEPT !.sleeps = @ + 1, !.i = @ + 1])

\* waitForTransactionWithPublicRpc(txHash, maxAttempts)
FinalityStart(maxAttempts) ==
    /\ finality.pc \in {"idle", "returned", "thrown"}
    /\ finality' = [FinalityIdle EXCEPT !.pc = "probe", !.maxAttempts = maxAttempts]
    /\ UNCHANGED <<ledgerVars, nftVars, histVars, client, frontVars, accessVars,
                   submitted, appStatus, sent, backoff, app, sideVars>>

FinalityProbe(live) ==
    /\ finality.pc = "probe"
    /\ finality' = FinalityProbeBody(finality, live)
    /\ UNCHANGED <<ledgerVars, nftVars, histVars, client, frontVars, accessVars,
                   submitted, appStatus, sent, backoff, app, sideVars>>

FinalityPoll(outcome) ==
    /\ finality.pc = "poll"
    /\ finality' = FinalityPollBody(finality, outcome)
    /\ UNCHANGED <<ledgerVars, nftVars, histVars, client, frontVars, accessVars,
                   submitted, appStatus, sent, backoff, app, sideVars>>

\* ------------------------------------------------- client: retryWithBackoff
DEFAULT_MAX_RETRIES == 3              \* retryWithBackoff's default maxRetries
DEFAULT_RETRY_DELAY == 5000           \* retryWithBackoff's default retryDelay (ms)
RetryDelays == {DEFAULT_RETRY_DELAY, 1000}   \* the retryDelay options explored (ms)

\* calls counts the invocations of fn; the k-th invocation, when it fails, throws the
\* error k; onRetry are the arguments of the onRetry calls made, delays the waits
\* made (ms); result is the invocation whose value was returned, thrown the error
\* rethrown (0 for none)
BackoffIdle == [pc |-> "idle", maxRetries |-> 0, retryDelay |-> 0, attempt |-> 0,
                calls |-> 0, lastError |-> 0, onRetry |-> <<>>, delays |-> <<>>,
                result |-> 0, thrown |-> 0]

RECURSIVE Pow2(_)
\* Math.pow(2, n)
Pow2(n) == IF n = 0 THEN 1 ELSE 2 * Pow2(n - 1)

\* mutant: linear instead of exponential back-off
BackoffDelayLinear(retryDelay, attempt) == retryDelay * (attempt + 1)

\* delay = retryDelay * Math.pow(2, attempt)
BackoffDelay(retryDelay, attempt) == retryDelay * Pow2(attempt)

\* mutant: the wait and onRetry also follow the last failed invocation
BackoffRetriesAlways(attempt, maxRetries) == TRUE

\* if (attempt < maxRetries): a failed invocation is followed by onRetry and a wait
BackoffRetries(attempt, maxRetries) == attempt < maxRetries

\* the for-loop header: attempt <= maxRetries, else throw lastError
BackoffLoopEntry(b) ==
    IF b.attempt <= b.maxRetries THEN [b EXCEPT !.pc = "call"]
    ELSE [b EXCEPT !.pc = "thrown", !.thrown = b.lastError]

\* one pass of the loop body: fn() is awaited; its value is returned, or its error is
\* kept as lastError and, below maxRetries, onRetry(attempt + 1, error) is called
\* and the wait starts
BackoffBody(b, ok) ==
    LET c == [b EXCEPT !.calls = @ + 1] IN
    IF ok THEN [c EXCEPT !.pc = "returned", !.result = c.calls]
    ELSE LET e == [c EXCEPT !.lastError = c.calls] IN
         IF BackoffRetries(e.attempt, e.maxRetries)
         THEN [e EXCEPT !.pc = "sleep",
                        !.onRetry = Append(@, <<e.attempt + 1, e.lastError>>),
                        !.delays = Append(@, BackoffDelay(e.retryDelay, e.attempt))]
         ELSE BackoffLoopEntry([e EXCEPT !.attempt = @ + 1])

\* retryWithBackoff(fn, {maxRetries, retryDelay, onRetry})
BackoffStart(maxRetries, retryDelay) ==
    /\ backoff.pc \in {"idle", "returned", "thrown"}
    /\ backoff' = BackoffLoopEntry([BackoffIdle EXCEPT !.maxRetries = maxRetries,
                                                       !.retryDelay = retryDelay])
    /\ UNCHANGED <<ledgerVars, nftVars, histVars, client, frontVars, accessVars,
                   submitted, appStatus, sent, finality, app, sideVars>>

BackoffCall(ok) ==
    /\ backoff.pc = "call"
    /\ backoff' = BackoffBody(backoff, ok)
    /\ UNCHANGED <<ledgerVars, nftVars, histVars, client, frontVars, accessVars,
                   submitted, appStatus, sent, finality, app, sideVars>>

\* the wait is over: attempt++ and the loop header
BackoffWake ==
    /\ backoff.pc = "sleep"
    /\ backoff' = BackoffLoopEntry([backoff EXCEPT !.attempt = @ + 1])
    /\ UNCHANGED <<ledgerVars, nftVars, histVars, client, frontVars, accessVars,
                   submitted, appStatus, sent, finality, app, sideVars>>

\* ------------------------------------------------- client: gateway health checks
\* A response body is described by what the checks read of it: whether text() can
\* be read, its first four characters and its length
KEY_PREFIX == "0x04"
MIN_KEY_LENGTH == 66
BodyLengths == {0, 4, MIN_KEY_LENGTH - 1, MIN_KEY_LENGTH, 2 * MIN_KEY_LENGTH}
BodyPrefixes == {KEY_PREFIX, "0x02", "<htm"}
Bodies ==
    {[readable |-> TRUE, prefix |-> "", length |-> 0]}
      \cup {[readable |-> TRUE, prefix |-> p, length |-> n] :
               p \in BodyPrefixes, n \in BodyLengths \ {0}}
      \cup {[readable |-> FALSE, prefix |-> "", length |-> 0]}
NoBody == [readable |-> FALSE, prefix |-> "", length |-> 0]
\* what fetch settles with: a response (resp.ok and its body), a network error, or
\* the abort of AbortSignal.timeout(5000)
HealthResponses ==
    {[kind |-> "response", ok |-> ok, body |-> b] : ok \in BOOLEAN, b \in Bodies}
      \cup {[kind |-> k, ok |-> FALSE, body |-> NoBody] : k \in {"error", "timeout"}}
NoResponse == [kind |-> "none", ok |-> FALSE, body |-> NoBody]
HealthChecks == {"checkGatewayHealth", "checkHealth"}
HealthIdle == [pc |-> "idle", check |-> "none", response |-> NoResponse,
               result |-> FALSE, gatewayStatus |-> "checking"]

\* text.startsWith('0x04') && text.length >= 66
ValidPublicKey(body) == body.prefix = KEY_PREFIX /\ body.length >= MIN_KEY_LENGTH

\* FHEVMProvider.checkGatewayHealth: false on a rejected fetch, on !resp.ok, on a
\* body that cannot be read and on a body that is not a public key
checkGatewayHealth(response) ==
    /\ response.kind = "response"
    /\ response.ok
    /\ response.body.readable
    /\ ValidPublicKey(response.body)

\* RelayerClient.checkHealth: response.ok, false on a rejected fetch
checkHealth(response) ==
    /\ response.kind = "response"
    /\ response.ok

\* one of the checks issues its GET of /public_key
HealthStart(check) ==
    /\ health.pc # "fetching"
    /\ health' = [health EXCEPT !.pc = "fetching", !.check = check,
                                !.response = NoResponse]
    /\ UNCHANGED <<ledgerVars, nftVars, histVars, client, frontVars, accessVars,
                   submitted, appStatus, sent, finality, backoff, app, wait, mockTx>>

\* the fetch settles and the check returns; the provider's callers (initializeFHEVM,
\* the 60 s checkStatus) then set gatewayStatus from the value returned
HealthSettle(response) ==
    /\ health.pc = "fetching"
    /\ LET isUp == IF health.check = "checkGatewayHealth"
                   THEN checkGatewayHealth(response)
                   ELSE checkHealth(response)
       IN  health' = [health EXCEPT
                        !.pc = "done", !.response = response, !.result = isUp,
                        !.gatewayStatus = IF health.check = "checkGatewayHealth"
                                          THEN (IF isUp THEN "up" ELSE "down")
                                          ELSE @]
    /\ UNCHANGED <<ledgerVars, nftVars, histVars, client, frontVars, accessVars,
                   submitted, appStatus, sent, finality, backoff, app, wait, mockTx>>

\* ----------------------------- client: withTimeout(waitForCondition) in handleVerifyFHE
\* pc is the position of the waitForCondition task; handler the position of
\* handleVerifyFHE; late says Date.now() - startTime has reached the timeout; tripped
\* that withTimeout's timer has rejected the race. checks counts condition() calls,
\* taskUpdates the setStatus / setIsVerified rounds made by the task (onProgress and
\* the condition), isVerified is the App's verification state
WaitIdle == [pc |-> "idle", handler |-> "idle", late |-> FALSE, tripped |-> FALSE,
             attempt |-> 0, checks |-> 0, taskUpdates |-> 0, isVerified |-> "unset"]

\* the while header of waitForCondition and what follows up to the await of
\* condition(): attempt++, onProgress(attempt); past the timeout, the throw
WaitLoopEntry(w) ==
    IF w.late
    THEN [w EXCEPT !.pc = "thrown"]
    ELSE [w EXCEPT !.pc = "checking", !.attempt = @ + 1, !.checks = @ + 1,
                   !.taskUpdates = @ + 1]

\* Promise.race: the handler's await ends with whichever settles first; a throw of
\* waitForCondition lands in the same catch as the timer's rejection
WaitRace(w) ==
    IF w.handler # "waiting" THEN w
    ELSE IF w.pc = "returned" THEN [w EXCEPT !.handler = "settled"]
    ELSE IF w.pc = "thrown" THEN [w EXCEPT !.handler = "retryCheck"]
    ELSE w

\* the status line the condition sets from the isVerified it read
ConditionStatus(verified) ==
    IF verified THEN "Verification successful! NFT credential minted!"
    ELSE "Age verification failed (under 18)"

\* handleVerifyFHE reaches the wait: waitForCondition runs to its first await, then
\* withTimeout arms its timer
WaitStart ==
    /\ wait.handler = "idle"
    /\ wait' = WaitLoopEntry([WaitIdle EXCEPT !.handler = "waiting"])
    /\ appStatus' = "Waiting for decryption"
    /\ UNCHANGED <<ledgerVars, nftVars, histVars, client, frontVars, accessVars,
                   submitted, sent, finality, backoff, app, health, mockTx>>

\* the clock passes startTime + timeout
WaitClock ==
    /\ wait.handler # "idle"
    /\ ~wait.late
    /\ wait' = [wait EXCEPT !.late = TRUE]
    /\ UNCHANGED <<ledgerVars, nftVars, histVars, client, frontVars, accessVars,
                   submitted, appStatus, sent, finality, backoff, app, health, mockTx>>

\* withTimeout's timer fires while the race is undecided: the handler's await
\* rejects and its catch starts the retry-eligibility check; the task is left alone
WaitTrip ==
    /\ wait.late
    /\ wait.handler = "waiting"
    /\ wait' = [wait EXCEPT !.tripped = TRUE, !.handler = "retryCheck"]
    /\ UNCHANGED <<ledgerVars, nftVars, histVars, client, frontVars, accessVars,
                   submitted, appStatus, sent, finality, backoff, app, health, mockTx>>

\* the safeContractCall awaited by condition() settles: a defined isVerified is
\* shown (setIsVerified, setStatus) and ends the task; an error is logged and the
\* task sleeps for the interval
WaitConditionSettles(outcome) ==
    /\ wait.pc = "checking"
    /\ IF outcome = "throws"
       THEN /\ wait' = [wait EXCEPT !.pc = "sleeping"]
            /\ UNCHANGED appStatus
       ELSE /\ wait' = WaitRace([wait EXCEPT
                          !.pc = "returned", !.taskUpdates = @ + 1,
                          !.isVerified = IF outcome = "verified" THEN "true" ELSE "false"])
            /\ appStatus' = ConditionStatus(outcome = "verified")
    /\ UNCHANGED <<ledgerVars, nftVars, histVars, client, frontVars, accessVars,
                   submitted, sent, finality, backoff, app, health, mockTx>>

\* the interval is over: back to the while header
WaitWake ==
    /\ wait.pc = "sleeping"
    /\ wait.late \/ wait.attempt < MaxWaitAttempts
    /\ wait' = WaitRace(WaitLoopEntry(wait))
    /\ appStatus' = IF wait.late THEN appStatus ELSE "Waiting for decryption"
    /\ UNCHANGED <<ledgerVars, nftVars, histVars, client, frontVars, accessVars,
                   submitted, sent, finality, backoff, app, health, mockTx>>

\* the catch branch once checkAndRetryDecryption has returned newRequestId
WaitRetryBranch(newRequestId) ==
    /\ wait.handler = "retryCheck"
    /\ wait' = [wait EXCEPT !.handler = "settled"]
    /\ appStatus' = TimeoutStatus(newRequestId)
    /\ UNCHANGED <<ledgerVars, nftVars, histVars, client, frontVars, accessVars,
                   submitted, sent, finality, backoff, app, health, mockTx>>

\* ------------------------------------------------------------ specification
Init ==
    /\ now = GenesisTime
    /\ counterRequest = 1
    /\ decryptionRequests = [id \in RequestIds |-> NoRequest]
    /\ requestIdToUser = [id \in RequestIds |-> ZERO]
    /\ userToRequestId = [u \in Users |-> 0]
    /\ isVerified = [u \in Users |-> FALSE]
    /\ userEncryptedAges = [u \in Users |-> NoAge]
    /\ cleartexts = [id \in RequestIds |-> FALSE]
    /\ tokenIdCounter = FIRST_TOKEN_ID
    /\ owners = [t \in TokenIds |-> ZERO]
    /\ addressToTokenId = [u \in Users |-> 0]
    /\ authorizedMinters = {Verifier}
    /\ stack = <<>>
    /\ retryLog = {}
    /\ completed = [id \in RequestIds |-> 0]
    /\ client = ClientIdle
    /\ poll = PollIdle
    /\ call = CallIdle
    /\ dec = DecIdle
    /\ tokenApprovals = [t \in TokenIds |-> ZERO]
    /\ operatorApprovals = {}
    /\ nftContract = NftAddress
    /\ receipt = NoReceipt
    /\ submitted = [u \in Users |-> {}]
    /\ appStatus = "none"
    /\ sent = {}
    /\ finality = FinalityIdle
    /\ backoff = BackoffIdle
    /\ app = AppIdle
    /\ health = HealthIdle
    /\ wait = WaitIdle
    /\ mockTx = NoMockTx

\* the decryption-request lifecycle and the client's retry decision
Next ==
    \/ Mined /\ \E t \in BlockTimes : Tick(t)
    \/ Mined /\ \E u \in Users, age \in LifecycleAges : verifyAge(u, age)
    \/ Mined /\ \E id \in RequestIds : callbackDecryption(id)
    \/ Mined /\ \E u \in Users, id \in RequestIds : retryDecryption(u, id)
    \/ Mined /\ HookReturn
    \/ ClientCheck
    \/ ClientKeep
    \/ ClientRetry
    \/ ClientReturn

\* verification and minting, with receivers that re-enter the verifier
NextMint ==
    \/ counterRequest <= MaxMintRequests /\ \E u \in Users, age \in Ages : verifyAge(u, age)
    \/ \E id \in RequestIds : callbackDecryption(id)
    \/ \E u \in Users, age \in Ages : verifyAgeMock(u, age)
    \/ \E u \in Users : mintNFTManual(u)
    \/ \E age \in Ages : HookReenterMock(age)
    \/ HookReenterManual
    \/ HookReturn
    \/ \E t \in TokenIds : revokeCredential(t)
    \/ authorizeMinter(Verifier)
    \/ revokeMinter(Verifier)

Spec == Init /\ [][Next]_vars
SpecMint == Init /\ [][NextMint]_vars

\* pollDecryption called on its own, every fetch settling with some response
NextPoll ==
    \/ \E m \in 0..MaxPollAttempts : PollStart(m)
    \/ \E r \in Responses : PollAttempt(r)
    \/ PollWake

PollStep == (\E r \in Responses : PollAttempt(r)) \/ PollWake
FairSpecPoll == Init /\ [][NextPoll]_vars /\ WF_vars(PollStep)

\* safeContractCall called on its own
NextCall ==
    \/ CallStart
    \/ \E v \in Values : CallTry("ok", v)
    \/ \E o \in Outcomes \ {"ok"} : CallTry(o, NoValue)

SpecCall == Init /\ [][NextCall]_vars

\* requestDecryption; every awaited call settles, so every step it is waiting for
\* is eventually taken
DecStep ==
    \/ \E o \in {"throws", "zero", "id"} : DecReadRequestId(o)
    \/ \E r \in Responses : DecPollAttempt(r)
    \/ DecPollWake
    \/ DecPollSettled
    \/ \E o \in {"processed", "notProcessed", "throws"} : DecWaitIteration(o)
    \/ \E o \in {"throws", "verified", "notVerified"} : DecReadResult(o)

NextDecrypt == DecStart \/ DecStep

FairSpecDecrypt == Init /\ [][NextDecrypt]_vars /\ WF_vars(DecStep)

\* the credential token under every ERC-721 operation any account can send
NextToken ==
    \/ \E u \in Users : verifyAgeMock(u, MINIMUM_AGE)
    \/ HookReturn
    \/ \E t \in TokenIds : revokeCredential(t)
    \/ \E a \in Users, to \in Users, t \in TokenIds : approve(a, to, t)
    \/ \E a \in Users : \E o \in Users \ {a} : setApprovalForAll(a, o)
    \/ \E a \in Users, from \in Users, to \in Users, t \in TokenIds :
          transferFrom(a, from, to, t)
    \/ \E a \in Users, from \in Users, to \in Users, t \in TokenIds :
          safeTransferFrom(a, from, to, t)

SpecToken == Init /\ [][NextToken]_vars

\* the administration of both contracts, with every account free to send any
\* transaction
NextAdmin ==
    \/ \E u \in Users : verifyAgeMock(u, MINIMUM_AGE)
    \/ HookReturn
    \/ \E t \in TokenIds : revokeCredential(t)
    \/ \E a \in Senders, to \in Users : mintCredentialTx(a, to)
    \/ \E a \in Senders, m \in Minters : authorizeMinterTx(a, m)
    \/ \E a \in Senders, m \in Minters : revokeMinterTx(a, m)
    \/ \E a \in Senders, nft \in {NftAddress, ZERO} : setNFTContract(a, nft)

SpecAdmin == Init /\ [][NextAdmin]_vars

\* the simplified verifier deployed with the credential contract
NextSimple ==
    \/ \E u \in Users, age \in Ages : verifyAgeSimplified(u, age)
    \/ \E u \in Users, age \in Ages : verifyAgeMock(u, age)
    \/ \E u \in Users : mintNFTManual(u)
    \/ \E age \in Ages : HookReenterMock(age)
    \/ HookReenterManual
    \/ HookReturn
    \/ \E t \in TokenIds : revokeCredential(t)

SpecSimple == Init /\ [][NextSimple]_vars

\* requestDecryption of Account run against the ledger: what its reads return is
\* what the ledger holds when they are made (or the read throws)
ReadsRequestId(outcome) ==
    \/ outcome = "throws"
    \/ outcome = IF userToRequestId[Account] = 0 THEN "zero" ELSE "id"

\* the reads of one waitForCallbackCompletion iteration
ReadsProcessed(outcome) ==
    \/ outcome = "throws"
    \/ outcome = IF /\ userToRequestId[Account] # 0
                    /\ decryptionRequests[userToRequestId[Account]].processed
                 THEN "processed" ELSE "notProcessed"

\* contract.isVerified(userAddress)
ReadsVerified(outcome) ==
    \/ outcome = "throws"
    \/ outcome = IF isVerified[Account] THEN "verified" ELSE "notVerified"

NextVerdict ==
    \/ /\ dec.pc = "idle"
       /\ counterRequest <= MaxMintRequests
       /\ \E age \in Ages : verifyAge(Account, age)
    \/ \E id \in RequestIds : callbackDecryption(id)
    \/ DecStart
    \/ \E o \in {"throws", "zero", "id"} : ReadsRequestId(o) /\ DecReadRequestId(o)
    \/ \E r \in {"ok", "notFound"} : DecPollAttempt(r)
    \/ DecPollWake
    \/ DecPollSettled
    \/ \E o \in {"processed", "notProcessed", "throws"} :
          ReadsProcessed(o) /\ DecWaitIteration(o)
    \/ \E o \in {"throws", "verified", "notVerified"} : ReadsVerified(o) /\ DecReadResult(o)

SpecVerdict == Init /\ [][NextVerdict]_vars

\* the request lifecycle with handleVerifyFHE's timeout branch as the caller of
\* checkAndRetryDecryption
NextApp ==
    \/ Mined /\ \E t \in BlockTimes : Tick(t)
    \/ Mined /\ \E age \in LifecycleAges : handleVerify("up", TRUE, age, TRUE)
    \/ Mined /\ \E id \in RequestIds : callbackDecryption(id)
    \/ Mined /\ \E id \in RequestIds : retryDecryption(Account, id)
    \/ ClientCheck
    \/ ClientKeep
    \/ ClientRetry
    \/ AppTimeoutBranch

SpecApp == Init /\ [][NextApp]_vars

\* the App's submissions of Account against the ledger
NextSubmit ==
    \/ /\ counterRequest <= MaxMintRequests
       /\ \E fheStatus \in GatewayStatuses, contractReady \in BOOLEAN, age \in Ages,
             encrypted \in BOOLEAN :
             handleVerify(fheStatus, contractReady, age, encrypted)
    \/ \E t \in BlockTimes : Tick(t)
    \/ \E id \in RequestIds : callbackDecryption(id)

SpecSubmit == Init /\ [][NextSubmit]_vars

\* waitForTransactionWithPublicRpc under every probe and poll outcome
NextFinality ==
    \/ \E maxAttempts \in 0..MaxFinalityAttempts : FinalityStart(maxAttempts)
    \/ \E live \in BOOLEAN : FinalityProbe(live)
    \/ \E outcome \in {"mined", "pending", "error"} : FinalityPoll(outcome)

SpecFinality == Init /\ [][NextFinality]_vars

\* retryWithBackoff with the default and with explicit options, under every outcome
\* of the wrapped operation
NextBackoff ==
    \/ \E maxRetries \in (0..MaxBackoffRetries) \cup {DEFAULT_MAX_RETRIES},
          retryDelay \in RetryDelays :
          BackoffStart(maxRetries, retryDelay)
    \/ \E ok \in BOOLEAN : BackoffCall(ok)
    \/ BackoffWake

SpecBackoff == Init /\ [][NextBackoff]_vars

\* the two gateway health checks under every response
NextHealth ==
    \/ \E check \in HealthChecks : HealthStart(check)
    \/ \E response \in HealthResponses : HealthSettle(response)

SpecHealth == Init /\ [][NextHealth]_vars

\* the wait of handleVerifyFHE under every timing of the clock, the timer and the
\* condition's reads
NextWait ==
    \/ WaitStart
    \/ WaitClock
    \/ WaitTrip
    \/ \E outcome \in {"throws", "verified", "notVerified"} : WaitConditionSettles(outcome)
    \/ WaitWake
    \/ \E newRequestId \in {0, 1} : WaitRetryBranch(newRequestId)

SpecWait == Init /\ [][NextWait]_vars

\* handleVerifyMock of Account while the NFT owner administers the minters and the
\* credentials
NextMock ==
    \/ \E fheStatus \in {"down", "checking"}, age \in Ages :
          handleVerify(fheStatus, TRUE, age, TRUE)
    \/ handleVerifyMockThrows
    \/ \E u \in Users \ {Account} : verifyAgeMock(u, MINIMUM_AGE)
    \/ HookReturn
    \/ \E t \in TokenIds : revokeCredential(t)
    \/ authorizeMinter(Verifier)
    \/ revokeMinter(Verifier)

SpecMock == Init /\ [][NextMock]_vars

\* ================================================================== claims
Exists(id) == decryptionRequests[id].timestamp > 0
Active(id) ==
    /\ Exists(id)
    /\ ~decryptionRequests[id].processed
    /\ ~getRequestStatus(id).expired
TokensOf(a) == {t \in TokenIds : owners[t] = a}

\* C1 (retry bound): retryDecryption is never accepted on a request whose retryCount
\* is already >= MAX_RETRIES, the client never sends retryDecryption when the
\* retryCount it read is >= 3, and no stored request has retryCount > 3.
C1_RetryBound ==
    /\ \A u \in Users, id \in RequestIds :
          CanRetry(u, id) => decryptionRequests[id].retryCount < MAX_RETRIES
    /\ \A e \in retryLog : e.before < MAX_RETRIES
    /\ client.called # "no" => client.status.retryCount < CLIENT_MAX_RETRIES
    /\ \A id \in RequestIds : decryptionRequests[id].retryCount <= MAX_RETRIES

\* C1 witness: a lineage has reached retryCount 3 through accepted retries, and the
\* client, having read an unprocessed, expired request with retryCount 3, returned
\* without sending a retry.
C1_Witness ==
    /\ \E e \in retryLog : e.before = MAX_RETRIES - 1
    /\ client.pc = "done"
    /\ ~client.status.processed
    /\ client.status.expired
    /\ client.status.retryCount = MAX_RETRIES
    /\ client.called = "no"

C3_SingleActiveRequest ==
    \A u \in Users :
        Cardinality({id \in RequestIds :
                        decryptionRequests[id].requester = u /\ Active(id)}) <= 1

\* C4 (retry on expiry), as claimed: when the client has read an unprocessed, expired
\* request with retryCount 0 and has finished, it sent retryDecryption, the retry was
\* accepted, and the id it returns is indexed for the subject with retryCount 1.
C4_RetryOnExpiry ==
    (/\ client.pc = "done"
     /\ client.requestId # 0
     /\ ~client.status.processed
     /\ client.status.expired
     /\ client.status.retryCount = 0)
    => /\ client.called = "accepted"
       /\ client.result # 0
       /\ userToRequestId[Account] = client.result
       /\ decryptionRequests[client.result].retryCount = 1

\* C5 (one retry per request), as claimed: every request id has at most one successor.
C5_OneRetryPerRequest ==
    \A e1 \in retryLog, e2 \in retryLog : e1.old = e2.old => e1.new = e2.new

\* C6 (processed is set once and freezes the request): processed never goes back to
\* false and is set only by an accepted callbackDecryption; a processed request's
\* record never changes again; no request completes twice; and no retry is accepted
\* on a processed request.
C6_ProcessedFreezes ==
    /\ [][\A id \in RequestIds :
             /\ decryptionRequests[id].processed =>
                   decryptionRequests'[id] = decryptionRequests[id]
             /\ (~decryptionRequests[id].processed /\ decryptionRequests'[id].processed) =>
                   completed'[id] = completed[id] + 1
             /\ completed'[id] # completed[id] => ~decryptionRequests[id].processed
         ]_vars
    /\ [][\A e \in retryLog' \ retryLog : ~decryptionRequests[e.old].processed]_vars
    /\ [](\A id \in RequestIds :
             /\ completed[id] <= 1
             /\ decryptionRequests[id].processed <=> completed[id] = 1)

\* C6 witness: a processed request of a lineage that was retried before, at a block
\* time inside its retry and callback window with retryCount below the bound: only
\* the processed flag stands between it and another callback or retry.
C6_Witness ==
    \E id \in RequestIds :
        /\ decryptionRequests[id].processed
        /\ decryptionRequests[id].retryCount \in 1..(MAX_RETRIES - 1)
        /\ now > decryptionRequests[id].timestamp + RETRY_COOLDOWN
        /\ now <= decryptionRequests[id].timestamp + REQUEST_TIMEOUT
        /\ counterRequest <= MaxRequests

\* C10 (one credential per address), as claimed: once no mint is in progress, no
\* address owns more than one credential token.
C10_OneCredentialPerAddress ==
    stack = <<>> => \A a \in Users : Cardinality(TokensOf(a)) <= 1

\* C7 (poll termination): against an oracle that never answers 2xx, pollDecryption
\* with maxAttempts >= 1 issues exactly maxAttempts requests, sleeps only between
\* attempts (maxAttempts - 1 times) and then throws the timeout error; it never
\* issues more than maxAttempts requests and every started poll ends.
C7_PollTermination ==
    /\ [](/\ (poll.pc = "thrown" /\ poll.maxAttempts >= 1) =>
                /\ poll.fetches = poll.maxAttempts
                /\ poll.sleeps = poll.maxAttempts - 1
                /\ poll.seen \cap {"ok"} = {}
          /\ (poll.pc # "idle" /\ poll.seen \cap {"ok", "okBadBody"} = {}) =>
                /\ poll.pc # "returned"
                /\ poll.fetches <= poll.maxAttempts
                /\ poll.pc = "attempt" => poll.fetches = poll.attempt - 1
                /\ poll.pc = "sleep" =>
                      poll.fetches = poll.attempt /\ poll.attempt < poll.maxAttempts
                /\ poll.sleeps = IF poll.pc = "thrown" /\ poll.fetches > 0
                                 THEN poll.fetches - 1 ELSE poll.fetches)
    /\ (poll.pc \in {"attempt", "sleep"}) ~> (poll.pc \in {"returned", "thrown"})

\* C7 witness: a poll with maxAttempts 3 that met only 404 answers has thrown after
\* 3 requests.
C7_Witness ==
    /\ poll.pc = "thrown"
    /\ poll.maxAttempts = 3
    /\ poll.seen = {"notFound"}
    /\ poll.fetches = 3

\* C8 (endpoint fallback): safeContractCall contacts the endpoints in list order; it
\* returns exactly when an endpoint succeeds, with that endpoint's decoded value,
\* all endpoints before it having failed and none after it contacted; it throws only
\* when every endpoint of the list has failed.
C8_EndpointFallback ==
    LET k == Len(call.contacted) IN
    /\ \A i \in 1..k : call.contacted[i].rpc = FALLBACK_RPCS[i]
    /\ \A i \in 1..(k - 1) : call.contacted[i].outcome # "ok"
    /\ call.pc = "returned" <=> (k >= 1 /\ call.contacted[k].outcome = "ok")
    /\ call.pc = "returned" => call.result = call.contacted[k].value
    /\ call.pc = "thrown" =>
          /\ k = Len(FALLBACK_RPCS)
          /\ \A i \in 1..k : call.contacted[i].outcome # "ok"
    /\ call.pc = "trying" => call.index = k + 1 /\ k < Len(FALLBACK_RPCS)

\* C8 witness: the first two endpoints failed, one in the call and one in decoding,
\* and the third endpoint's value was returned.
C8_Witness ==
    /\ call.pc = "returned"
    /\ Len(call.contacted) = 3
    /\ call.contacted[1].outcome = "networkError"
    /\ call.contacted[2].outcome = "decodeError"
    /\ call.result = 1

\* C9 (terminal progress): a run of requestDecryption that has started (status
\* requesting, polling or waiting) eventually reaches status success with progress
\* 100 or status failed; the run is over exactly when the status is terminal.
C9_TerminalProgress ==
    /\ (dec.status \in {"requesting", "polling", "waiting"})
          ~> (\/ dec.status = "success" /\ dec.progress = 100
              \/ dec.status = "failed")
    /\ [](/\ dec.status = "success" => dec.progress = 100
          /\ dec.pc = "done" <=> dec.status \in {"success", "failed"})

\* C9 witnesses: runs that ended on each path: success, oracle poll timeout after
\* all 60 attempts, and callback timeout after all 120 iterations.
C9_Witness ==
    /\ dec.pc = "done"
    /\ dec.status = "failed"
    /\ dec.error = "callback timeout"
    /\ dec.i = MAX_WAIT - 1

\* C11 (soulbound): no step of any ERC-721 operation moves a credential token from
\* one non-zero owner to another; an owner only changes from zero (mint) or to zero
\* (burn).
C11_Soulbound ==
    [][\A t \in TokenIds :
          owners'[t] # owners[t] => (owners[t] = ZERO \/ owners'[t] = ZERO)]_vars

\* C11 witness: mallory, approved by alice for alice's token, sent transferFrom and
\* the transfer reverted, the token staying with alice.
C11_Witness ==
    \E t \in TokenIds :
        /\ owners[t] = "alice"
        /\ tokenApprovals[t] = "mallory"
        /\ receipt = Receipt("transferFrom", "mallory", FALSE)

\* C12 (credential only for age >= 18), as claimed: an account is verified or holds
\* a credential only if it has submitted an age of at least 18.
C12_CredentialOnlyForAdults ==
    \A u \in Users :
        (isVerified[u] \/ TokensOf(u) # {}) => \E age \in submitted[u] : age >= MINIMUM_AGE

\* C13 (verdict equals decrypted result), as claimed: an accepted callback with
\* decrypted value b sets isVerified[subject] to b and mints exactly when b is true
\* and the subject has no credential; and once the callback of the subject's request
\* has been accepted, a successful requestDecryption has reported verified = b.
C13_VerdictEqualsResult ==
    /\ [][\A id \in RequestIds :
            completed'[id] # completed[id] =>
                /\ isVerified'[requestIdToUser[id]] = cleartexts[id]
                /\ (tokenIdCounter' # tokenIdCounter)
                      <=> (cleartexts[id] /\ ~hasCredential(requestIdToUser[id]))]_vars
    /\ [](LET id == userToRequestId[Account] IN
          (dec.status = "success" /\ id # 0 /\ decryptionRequests[id].processed)
              => ((dec.result = "verified") <=> cleartexts[id]))

\* C14 (retry exhausted / not eligible), as claimed: when checkAndRetryDecryption
\* found the subject's unprocessed request not retry-eligible (not expired, or its
\* retryCount already 3), it has sent no retryDecryption, and the status the timeout
\* branch then shows is not the one of a submitted retry.
C14_NotEligibleReportsFailure ==
    [][(/\ client.pc = "done"
        /\ client'.pc = "idle"
        /\ client.requestId # 0
        /\ ~client.status.processed
        /\ ~ShouldRetry(client.status))
       => (client.called = "no" /\ appStatus' # "retrySubmitted")]_vars

\* C15 (all endpoints unavailable), as claimed: when every endpoint has thrown, the
\* read call rejects with an error that lists the underlying error of each endpoint
\* tried, in order.
C15_AllEndpointsUnavailable ==
    (/\ Len(call.contacted) = Len(FALLBACK_RPCS)
     /\ \A i \in 1..Len(call.contacted) : call.contacted[i].outcome # "ok")
    => /\ call.pc = "thrown"
       /\ Len(call.error.causes) = Len(FALLBACK_RPCS)
       /\ \A i \in 1..Len(FALLBACK_RPCS) :
             call.error.causes[i] = call.contacted[i].outcome

\* C16 (plaintext age never leaves the client), as claimed: every transaction
\* handleVerify has submitted, whatever the gateway status and the contract state, is
\* a verifyAge carrying no plaintext age.
C16_PlaintextNeverSent ==
    \A tx \in sent : tx.fn = "verifyAge" /\ tx.plainAge = NoAge

\* C19 (sequential submission per subject), as claimed: no step submits a new
\* verifyAge request for the subject while a request of that subject is unprocessed
\* and not expired.
C19_SequentialSubmission ==
    [][counterRequest' # counterRequest =>
          ~\E id \in RequestIds :
              decryptionRequests[id].requester = Account /\ Active(id)]_vars

\* C17 (owner-only administration), as claimed: the verifier's nftContract changes
\* only in a setNFTContract transaction sent by the owner (the deploying account).
C17_OwnerOnlyAdministration ==
    [][nftContract' # nftContract =>
          receipt' = Receipt("setNFTContract", Deployer, TRUE)]_vars

\* C18 (only authorized minters mint): a mintCredential transaction succeeds only when
\* its sender is in authorizedMinters, and any step that mints has an authorized
\* caller (the verifier or that sender); a reverted mintCredential leaves ownership,
\* addressToTokenId and the token counter unchanged; and authorizedMinters changes
\* only in a successful authorizeMinter / revokeMinter sent by the NFT owner.
C18_OnlyAuthorizedMintersMint ==
    [][/\ (receipt'.op = "mintCredential" /\ receipt'.status = "success")
              => receipt'.sender \in authorizedMinters
       /\ tokenIdCounter' # tokenIdCounter
              => \/ Verifier \in authorizedMinters
                 \/ /\ receipt'.op = "mintCredential"
                    /\ receipt'.status = "success"
                    /\ receipt'.sender \in authorizedMinters
       /\ (receipt' # receipt /\ receipt'.op = "mintCredential"
                              /\ receipt'.status = "reverted")
              => UNCHANGED <<owners, addressToTokenId, tokenIdCounter>>
       /\ authorizedMinters' # authorizedMinters
              => /\ receipt'.op \in {"authorizeMinter", "revokeMinter"}
                 /\ receipt' = Receipt(receipt'.op, Deployer, TRUE)]_vars

\* C18 witness: with the verifier revoked and mallory never authorized, mallory's
\* mintCredential has reverted
C18_Witness ==
    /\ receipt = Receipt("mintCredential", "mallory", FALSE)
    /\ authorizedMinters = {}
    /\ \A u \in Users : addressToTokenId[u] = 0

\* C20 (retry decision policy): whenever checkAndRetryDecryption has sent
\* retryDecryption (accepted or reverted), the request it read exists, is not
\* processed, was reported expired and has retryCount < 3; in every other case it
\* has made no write call.
C20_RetryDecisionPolicy ==
    client.called # "no" =>
        /\ client.requestId # 0
        /\ client.status = StatusRead(client.requestId)
        /\ ~client.status.processed
        /\ client.status.expired
        /\ client.status.retryCount < CLIENT_MAX_RETRIES

\* C20 witness: the client read an unprocessed, expired request with retryCount 2 and
\* sent retryDecryption for it
C20_Witness ==
    /\ client.pc = "done"
    /\ client.called # "no"
    /\ client.requestId = userToRequestId[Account]
    /\ ~client.status.processed
    /\ client.status.expired
    /\ client.status.retryCount = CLIENT_MAX_RETRIES - 1

\* C21 (retry cool-down), as claimed: retryDecryption on a request is accepted only
\* when strictly more than RETRY_COOLDOWN has elapsed since the request's timestamp,
\* and the requester's retry of an unprocessed, expired request below the retry bound
\* is accepted once that cool-down has elapsed.
C21_RetryCooldown ==
    \A u \in Users, id \in RequestIds :
        LET request == decryptionRequests[id] IN
        /\ CanRetry(u, id) => now > request.timestamp + RETRY_COOLDOWN
        /\ (/\ Exists(id)
            /\ u = requestIdToUser[id]
            /\ ~request.processed
            /\ request.retryCount < MAX_RETRIES
            /\ isRequestExpired(id)
            /\ now > request.timestamp + RETRY_COOLDOWN) => CanRetry(u, id)

\* C22 (poll attempt handling), as claimed: once an attempt has met a 2xx response
\* pollDecryption has returned, with attempts the number of that attempt, and no
\* further request is issued; and as long as every response was a 404, another
\* non-2xx status or a network error, it has not returned and throws only after
\* maxAttempts requests.
C22_PollAttemptHandling ==
    /\ poll.seen \cap {"ok", "okBadBody"} # {} =>
          /\ poll.pc = "returned"
          /\ poll.fetches = poll.attempt
    /\ (poll.pc # "idle" /\ poll.seen \cap {"ok", "okBadBody"} = {}) =>
          /\ poll.pc # "returned"
          /\ poll.pc = "thrown" => poll.fetches = poll.maxAttempts

\* C23 (finality polling), as claimed: the endpoint polled is the first one whose
\* block-number probe succeeded; when no endpoint's probe succeeded the call has
\* failed with the all-unavailable error before any receipt poll; it makes at most
\* maxAttempts polls, and fails with the confirmation-timeout error only after
\* exactly maxAttempts polls.
C23_FinalityPolling ==
    /\ (finality.pc \in {"poll", "returned"} \/ finality.polls > 0) =>
          /\ finality.provider # 0
          /\ finality.probes[finality.provider]
          /\ \A j \in 1..(finality.provider - 1) : ~finality.probes[j]
    /\ (/\ Len(finality.probes) = Len(FALLBACK_RPCS)
        /\ \A j \in 1..Len(finality.probes) : ~finality.probes[j]) =>
          /\ finality.pc = "thrown"
          /\ finality.error = "all public RPCs unavailable"
          /\ finality.polls = 0
    /\ finality.polls <= finality.maxAttempts
    /\ (finality.pc = "thrown" /\ finality.error = "confirmation timeout") =>
          finality.polls = finality.maxAttempts

\* C24 (callback reconciliation), as claimed: waitForCallbackCompletion returns
\* successfully only in a state where the processed flag of the subject's request is
\* true or the subject's verification flag is set; while neither holds it keeps
\* polling, and it fails with the callback timeout only with its budget used up.
C24_CallbackReconciliation ==
    [][/\ (dec.pc = "waiting" /\ dec'.pc = "readResult") =>
             \/ /\ userToRequestId[Account] # 0
                /\ decryptionRequests[userToRequestId[Account]].processed
             \/ isVerified[Account]
       /\ (dec.pc = "waiting" /\ dec'.error = "callback timeout") =>
             dec.i = MAX_WAIT - 1]_vars

\* C25 (oracle poll timeout leads to retry evaluation), as claimed: when
\* pollDecryption has exhausted its attempts inside requestDecryption, the step that
\* follows does not report 'failed'; the retry evaluation (checkAndRetryDecryption's
\* reads) comes first.
C25_PollTimeoutEvaluatesRetry ==
    [][(dec.pc = "polling" /\ poll.pc = "thrown") =>
          (dec'.status # "failed" \/ client'.pc # "idle")]_vars

C27_ThreeAttempts ==
    (backoff.maxRetries = DEFAULT_MAX_RETRIES /\ backoff.retryDelay = DEFAULT_RETRY_DELAY)
    => /\ backoff.calls <= 3
       /\ \A k \in 1..Len(backoff.delays) : backoff.delays[k] = 5000 * Pow2(k - 1)

\* C27 amended: with the default options the wrapped operation is invoked at most 4
\* times in total (the first attempt and 3 retries); when every invocation fails it
\* is invoked exactly 4 times, with waits of 5000, 10000 and 20000 ms between them.
C27_FourAttempts ==
    (backoff.maxRetries = DEFAULT_MAX_RETRIES /\ backoff.retryDelay = DEFAULT_RETRY_DELAY)
    => /\ backoff.calls <= 4
       /\ \A k \in 1..Len(backoff.delays) : backoff.delays[k] = 5000 * Pow2(k - 1)
       /\ backoff.pc = "thrown" =>
             /\ backoff.calls = 4
             /\ backoff.delays = <<5000, 10000, 20000>>

\* C27 witness: with the default options all 4 invocations have failed
C27_Witness ==
    /\ backoff.pc = "thrown"
    /\ backoff.maxRetries = DEFAULT_MAX_RETRIES
    /\ backoff.retryDelay = DEFAULT_RETRY_DELAY
    /\ backoff.calls = 4

\* C28 (retryWithBackoff outcome): it returns the value of the first successful
\* invocation, all invocations before it having failed, and invokes nothing after
\* it; the k-th failed invocation with k <= maxRetries is followed by one
\* onRetry(k, its error) and a wait of retryDelay * 2^(k-1); when all maxRetries + 1
\* invocations have failed it rethrows the error of the last one, with no onRetry
\* and no wait after it.
C28_BackoffOutcome ==
    LET failed == IF backoff.pc = "returned" THEN backoff.calls - 1 ELSE backoff.calls
        retried == IF failed <= backoff.maxRetries THEN failed ELSE backoff.maxRetries
    IN  backoff.pc # "idle" =>
        /\ backoff.calls <= backoff.maxRetries + 1
        /\ backoff.pc = "returned" =>
              /\ backoff.result = backoff.calls
              /\ backoff.thrown = 0
        /\ Len(backoff.onRetry) = retried
        /\ Len(backoff.delays) = retried
        /\ \A k \in 1..retried :
              /\ backoff.onRetry[k] = <<k, k>>
              /\ backoff.delays[k] = backoff.retryDelay * Pow2(k - 1)
        /\ backoff.pc = "thrown" <=> failed = backoff.maxRetries + 1
        /\ backoff.pc = "thrown" =>
              /\ backoff.thrown = backoff.calls
              /\ backoff.result = 0
        /\ backoff.pc = "sleep" => failed = backoff.attempt + 1
        /\ backoff.pc = "call" => failed = backoff.attempt

\* C28 witness: with maxRetries 2 the first two invocations failed, each followed by
\* onRetry and a wait, and the third returned
C28_Witness ==
    /\ backoff.pc = "returned"
    /\ backoff.maxRetries = 2
    /\ backoff.result = 3
    /\ backoff.onRetry = <<<<1, 1>>, <<2, 2>>>>
    /\ backoff.delays = <<backoff.retryDelay, 2 * backoff.retryDelay>>

\* C29 (exception boundary preserves the cause), as claimed: whenever
\* requestDecryption has ended in the failure state, the error it reports is the
\* message of the exception that was raised.
C29_CausePreserved ==
    dec.status = "failed" => dec.error = dec.cause

\* C30 (invalid encryption fails fast): a run of handleVerifyFHE whose encryptAge
\* returned null ends in the failure status with loading false, having submitted no
\* transaction, changed nothing on the ledger and started no ledger read, receipt
\* poll or oracle request.
C30_EncryptionFailsFast ==
    [][(app'.encryptedData = "null" /\ app.encryptedData # "null") =>
          /\ appStatus' = CatchStatus(EncryptFailedMessage)
          /\ ~app'.loading
          /\ UNCHANGED <<sent, ledgerVars, nftVars, client, poll, call, dec, finality>>]_vars

\* C30 witness: after a submitted verification, a second run whose encryption
\* failed has ended: the failure status shows, loading is false and only the first
\* transaction was ever sent
C30_Witness ==
    /\ app = [loading |-> FALSE, encryptedData |-> "null"]
    /\ appStatus = CatchStatus(EncryptFailedMessage)
    /\ counterRequest = 2
    /\ sent = {Tx("verifyAge", NoAge)}

\* C31 (gateway liveness signal), as claimed: a health check that has returned
\* reports the gateway up exactly when the GET returned a success status and a body
\* that starts with '0x04' and has length >= 66.
C31_GatewayLiveness ==
    health.pc = "done" =>
        (health.result <=> /\ health.response.kind = "response"
                           /\ health.response.ok
                           /\ health.response.body.readable
                           /\ ValidPublicKey(health.response.body))

\* C32 (expired requests are dead): once block.timestamp exceeds timestamp +
\* REQUEST_TIMEOUT for an unprocessed request, no step processes it (no
\* DecryptionCompleted for it), no step gives it a successor (no DecryptionRetrying
\* from it), and getRequestStatus keeps reporting it unprocessed and expired.
C32_ExpiredRequestsAreDead ==
    [][\A id \in RequestIds :
          (/\ decryptionRequests[id].timestamp > 0
           /\ ~decryptionRequests[id].processed
           /\ now > decryptionRequests[id].timestamp + REQUEST_TIMEOUT)
          => /\ ~decryptionRequests'[id].processed
             /\ completed'[id] = completed[id]
             /\ \A e \in retryLog' \ retryLog : e.old # id
             /\ decryptionRequests'[id].retryCount = decryptionRequests[id].retryCount
             /\ getRequestStatus(id)'.exists
             /\ ~getRequestStatus(id)'.processed
             /\ getRequestStatus(id)'.expired]_vars

\* C32 witness: the client has sent retryDecryption for an expired, unprocessed
\* request and the ledger has rejected it; the request is itself the successor of
\* a retry made in time, and getRequestStatus reports it expired
C32_Witness ==
    /\ client.called = "reverted"
    /\ client.requestId # 0
    /\ LET status == getRequestStatus(client.requestId) IN
       /\ status.exists /\ ~status.processed /\ status.expired
       /\ status.retryCount = 1

\* C33 (no stale callback effect), as claimed: isVerified[user] changes, and a
\* credential is minted, only in a step that completes the request indexed by
\* userToRequestId[user]; the callback of a superseded request changes neither.
C33_NoStaleCallbackEffect ==
    [][\A u \in Users :
          (\/ isVerified'[u] # isVerified[u]
           \/ \E t \in TokenIds : owners'[t] = u /\ owners[t] # u)
          => /\ userToRequestId[u] # 0
             /\ completed'[userToRequestId[u]] = completed[userToRequestId[u]] + 1]_vars

\* C34 (index consistency, latest wins): for every user u with userToRequestId[u]
\* = id # 0, the record of id exists with requester u, requestIdToUser[id] = u, and
\* id is the request created last on behalf of u (ids are handed out in increasing
\* order, so the last one is the greatest).
C34_IndexConsistency ==
    \A u \in Users :
        LET id == userToRequestId[u] IN
        id # 0 =>
            /\ decryptionRequests[id].timestamp > 0
            /\ decryptionRequests[id].requester = u
            /\ requestIdToUser[id] = u
            /\ \A other \in RequestIds : requestIdToUser[other] = u => other <= id

\* C34 witness: alice has submitted twice and then retried her first, superseded
\* request: the index points at the successor, the last request made for her
C34_Witness ==
    /\ userToRequestId["alice"] = 3
    /\ requestIdToUser[1] = "alice" /\ requestIdToUser[2] = "alice"
    /\ \E e \in retryLog : e.old = 1 /\ e.new = 3

\* C35 (abandoned wait is silent), as claimed: once the timer of withTimeout has
\* tripped and the handler has moved to the retry-eligibility check, the abandoned
\* waitForCondition task starts no condition check and makes no update of the
\* verification state or the status line.
C35_AbandonedWaitIsSilent ==
    [][wait.tripped => /\ wait'.checks = wait.checks
                       /\ wait'.taskUpdates = wait.taskUpdates
                       /\ wait'.isVerified = wait.isVerified]_vars

\* C36 (credential implies verified), as claimed: every user who holds a credential
\* (hasCredential) has isVerified = true.
C36_CredentialImpliesVerified ==
    \A u \in Users : hasCredential(u) => isVerified[u]

\* C37 (mock verification result matches the ledger), as claimed: whenever
\* handleVerifyMock completes without reporting an error, the isVerified it shows
\* equals the on-chain isVerified[account]; a receipt with the failed status is not
\* reported as a successful verification.
C37_MockResultMatchesLedger ==
    [][(<<mockTx', appStatus'>> # <<mockTx, appStatus>> /\ mockTx'.receipt # "none"
          /\ ~mockTx'.error)
       => /\ mockTx'.isVerified = (IF isVerified'[Account] THEN "true" ELSE "false")
          /\ (mockTx'.receipt = "failed" => appStatus' # MockStatus(MINIMUM_AGE))]_vars

\* C38 (token id and ownership index), as claimed: token ids start at 1, each mint
\* takes the next id and ids are never reused after a revoke; outside a mint in
\* progress addressToTokenId[a] = t # 0 holds exactly when a owns token t; and a
\* revoke leaves the former owner with hasCredential = false.
C38_TokenIdAndOwnershipIndex ==
    /\ [](/\ tokenIdCounter >= FIRST_TOKEN_ID
          /\ \A t \in TokenIds : owners[t] # ZERO => t < tokenIdCounter)
    /\ [](stack = <<>> =>
             \A a \in Users, t \in TokenIds : addressToTokenId[a] = t <=> owners[t] = a)
    /\ [][/\ tokenIdCounter' >= tokenIdCounter
          /\ \A t \in TokenIds :
                /\ (owners[t] = ZERO /\ owners'[t] # ZERO) =>
                      (t = tokenIdCounter /\ tokenIdCounter' = tokenIdCounter + 1)
                /\ (owners[t] # ZERO /\ owners'[t] = ZERO) =>
                      addressToTokenId'[owners[t]] = 0]_vars

\* C39 (progress is monotone): within one run of requestDecryption the progress is
\* an integer in 0..100, no update lowers it, and it is 100 only with status
\* success; pollDecryption has called onProgress once for every attempt it has
\* begun, each call before that attempt's request, the k-th call with current = k
\* and with the integer nearest to 100 * k / maxAttempts as percentage.
C39_ProgressMonotone ==
    /\ [](/\ dec.progress \in 0..100
          /\ dec.progress = 100 => dec.status = "success"
          /\ poll.progressCalls = poll.fetches
          /\ poll.pc \in {"sleep", "returned"} => poll.progressCalls = poll.attempt
          /\ poll.pc \in {"attempt", "thrown"} => poll.progressCalls = poll.attempt - 1
          /\ poll.progressCalls >= 1 =>
                /\ 2 * poll.percentage * poll.maxAttempts
                      <= 200 * poll.progressCalls + poll.maxAttempts
                /\ 2 * poll.percentage * poll.maxAttempts
                      >= 200 * poll.progressCalls - poll.maxAttempts)
    /\ [][dec.pc \notin {"idle", "done"} => dec'.progress >= dec.progress]_vars

\* C39 witness: the poll of a run has made its last attempt, the 60th, and the
\* progress stands at 80, having risen from 30
C39_Witness ==
    /\ dec.pc = "polling"
    /\ poll.pc = "thrown"
    /\ poll.progressCalls = DEFAULT_MAX_ATTEMPTS
    /\ poll.percentage = 100
    /\ dec.progress = 80

====
